---- MODULE Spec2Model ----
(***************************************************************************)
(* Model of the generate endpoint of diy-llm-bot-api: request validation,  *)
(* provider resolution, the auth gate, the upstream dispatch and the       *)
(* DoubleNewlineReader / chunkToDataArray reframing loop that forwards     *)
(* content fragments to the client.                                        *)
(*                                                                         *)
(* Text is a sequence of units.  A unit is one character or one fixed      *)
(* ASCII run of the protocol ("data: ", "[DONE]", a JSON object text).     *)
(* Upstream bodies are sequences of byte units: the two bytes "C3" "A9"    *)
(* are the UTF-8 encoding of one character, every other unit is ASCII.     *)
(***************************************************************************)
EXTENDS Integers, Sequences, FiniteSets, TLC

(***************************************************************************)
(* Bounds                                                                  *)
(***************************************************************************)
MaxEvents == 2
MaxMsgs == 2

\* the longest conversation of the specification of the outbound request
MaxLongMsgs == 27

(***************************************************************************)
(* Program constants                                                       *)
(***************************************************************************)
MAX_TOKENS == 4097
TOKENS_SAFETY_MARGIN == 25

\* the value of a cookie, a secret or a field that is not set
Undefined == "<undefined>"

\* a model identifier that is not a key of MODEL_TO_PROVIDER
UnknownModel == "text-davinci-003"

\* the registry with a stale entry for a model that was removed
MODEL_TO_PROVIDER_Stale ==
  [m \in { "mistralai/Mixtral-8x7B-Instruct-v0.1",
           "meta-llama/Meta-Llama-3.1-405B-Instruct" } |-> "deepinfra"]
  @@ [m \in { "meta-llama/Llama-3-70b-chat-hf" } |-> "together"]
  @@ [m \in { "anthropic/claude-3-opus:beta", "anthropic/claude-3.5-sonnet",
              "mistralai/mistral-large", "deepseek/deepseek-coder" } |-> "openrouter"]
  @@ [m \in { "gpt-3.5-turbo-instruct", "gpt-3.5-turbo", "gpt-4",
              "gpt-4-1106-preview", "gpt-4.1", "gpt-4.1-mini", "gpt-4.1-nano",
              "gpt-5", "gpt-5-chat-latest", "gpt-4o-mini", "gpt-4o",
              "o1-preview", "o1-mini" } |-> "openai"]
  @@ [m \in { UnknownModel } |-> "openai"]

MODEL_TO_PROVIDER ==
  [m \in { "mistralai/Mixtral-8x7B-Instruct-v0.1",
           "meta-llama/Meta-Llama-3.1-405B-Instruct" } |-> "deepinfra"]
  @@ [m \in { "meta-llama/Llama-3-70b-chat-hf" } |-> "together"]
  @@ [m \in { "anthropic/claude-3-opus:beta", "anthropic/claude-3.5-sonnet",
              "mistralai/mistral-large", "deepseek/deepseek-coder" } |-> "openrouter"]
  @@ [m \in { "gpt-3.5-turbo-instruct", "gpt-3.5-turbo", "gpt-4",
              "gpt-4-1106-preview", "gpt-4.1", "gpt-4.1-mini", "gpt-4.1-nano",
              "gpt-5", "gpt-5-chat-latest", "gpt-4o-mini", "gpt-4o",
              "o1-preview", "o1-mini" } |-> "openai"]

MODELS == DOMAIN MODEL_TO_PROVIDER

AUTHED_MODELS ==
  { "gpt-4", "gpt-4.1", "gpt-4.1-mini", "gpt-4.1-nano", "gpt-5",
    "gpt-5-chat-latest", "o1-preview", "o1-mini" }

\* the buffered models of an earlier revision
BufferedModelsOld == { "o1-preview", "o1-mini" }

\* the models answered with one buffered JSON document instead of a stream
BufferedModels == { "o1-preview", "o1-mini", "gpt-5" }

\* the gate of an earlier revision: the privileged models spelled out in
\* the condition instead of looked up in AUTHED_MODELS
AuthedSpelledOut(model) ==
  model \in { "gpt-4", "gpt-4.5-preview", "gpt-4.1", "o1-preview", "o1-mini" }

\* AUTHED_MODELS.has(model)
Authed(model) == model \in AUTHED_MODELS

getModelConfig(model) ==
  LET provider == MODEL_TO_PROVIDER[model]
      authed == Authed(model)
  IN CASE provider = "deepinfra" ->
            [apiType |-> "chat", systemMessage |-> "default",
             apiUrl |-> "https://api.deepinfra.com/v1/openai/chat/completions",
             stop |-> "END_OF_STREAM", authed |-> authed]
       [] provider = "together" ->
            [apiType |-> "chat", systemMessage |-> "default",
             apiUrl |-> "https://api.together.xyz/v1/chat/completions",
             stop |-> "<|eot_id|>", authed |-> authed]
       [] provider = "openrouter" ->
            [apiType |-> "chat", systemMessage |-> "default",
             apiUrl |-> "https://openrouter.ai/api/v1/chat/completions",
             stop |-> "END_OF_STREAM", authed |-> authed]
       [] provider = "openai" ->
            [apiType |-> IF model = "gpt-3.5-turbo-instruct" THEN "instruct" ELSE "chat",
             systemMessage |-> IF model \in {"o1-preview", "o1-mini"}
                               THEN "default" ELSE "custom",
             apiUrl |-> IF model = "gpt-3.5-turbo-instruct"
                        THEN "https://api.openai.com/v1/completions"
                        ELSE "https://api.openai.com/v1/chat/completions",
             stop |-> IF model \in {"o1-preview", "o1-mini", "gpt-5"}
                      THEN Undefined ELSE "END_OF_STREAM",
             authed |-> authed]

(***************************************************************************)
(* Text helpers                                                            *)
(***************************************************************************)
LF == "\n"
CR == "\r"
SP == " "
DataPrefix == "data: "
DoneText == "[DONE]"
Replacement == "U+FFFD"
EAcute == "U+00E9"

\* String.prototype.trim and JSON.parse skip these
Whitespace == {LF, CR, SP}

Concat(ss) ==
  LET RECURSIVE Cat(_)
      Cat(i) == IF i > Len(ss) THEN <<>> ELSE ss[i] \o Cat(i + 1)
  IN Cat(1)

\* String.prototype.indexOf("\n\n"): first index (1-based) or 0 when absent
IndexOfDoubleNewline(s) ==
  LET hits == { i \in 1..(Len(s) - 1) : s[i] = LF /\ s[i + 1] = LF }
  IN IF hits = {} THEN 0 ELSE CHOOSE i \in hits : \A j \in hits : i <= j

\* String.prototype.trim
Trim(s) ==
  LET keep == { i \in 1..Len(s) : s[i] \notin Whitespace }
  IN IF keep = {} THEN <<>>
     ELSE LET lo == CHOOSE i \in keep : \A j \in keep : i <= j
              hi == CHOOSE i \in keep : \A j \in keep : i >= j
          IN SubSeq(s, lo, hi)

\* String.prototype.split("\n\n")
RECURSIVE SplitDoubleNewline(_)
SplitDoubleNewline(s) ==
  LET pos == IndexOfDoubleNewline(s)
  IN IF pos = 0 THEN << s >>
     ELSE << SubSeq(s, 1, pos - 1) >> \o SplitDoubleNewline(SubSeq(s, pos + 2, Len(s)))

\* TextDecoder.decode(value) of one chunk, without the stream option: a
\* two-byte character is decoded only when both bytes are in the chunk, a
\* lone lead or continuation byte becomes U+FFFD
RECURSIVE Utf8Decode(_)
Utf8Decode(bytes) ==
  IF bytes = <<>> THEN <<>>
  ELSE IF bytes[1] = "C3" /\ Len(bytes) >= 2 /\ bytes[2] = "A9"
       THEN << EAcute >> \o Utf8Decode(SubSeq(bytes, 3, Len(bytes)))
  ELSE IF bytes[1] \in {"C3", "A9"}
       THEN << Replacement >> \o Utf8Decode(Tail(bytes))
  ELSE << bytes[1] >> \o Utf8Decode(Tail(bytes))

\* String.prototype.replace(/\r\n/g, "\n")
RECURSIVE ReplaceCRLF(_)
ReplaceCRLF(s) ==
  IF s = <<>> THEN <<>>
  ELSE IF s[1] = CR /\ Len(s) >= 2 /\ s[2] = LF
       THEN << LF >> \o ReplaceCRLF(SubSeq(s, 3, Len(s)))
  ELSE << s[1] >> \o ReplaceCRLF(Tail(s))

\* this.decoder.decode(value).replace(/\r\n/g, "\n")
DecodeChunk(bytes) == ReplaceCRLF(Utf8Decode(bytes))

(***************************************************************************)
(* JSON values of upstream events                                          *)
(***************************************************************************)
\* a choice: kind "delta" is {delta:{content:str}}, "deltaEmpty" is
\* {delta:{}}, "bare" has neither delta nor text nor message, "text" is
\* {text:str}, "message" is {message:{content:str}}
Choice(kind, str) == [kind |-> kind, str |-> str]

EventValue(hasChoices, choices) == [hasChoices |-> hasChoices, choices |-> choices]

\* the JSON object texts the upstream sends as single units
JsonHe == "{\"choices\":[{\"delta\":{\"content\":\"He\"}}]}"
JsonLlo == "{\"choices\":[{\"delta\":{\"content\":\"llo\"}}]}"
JsonAB == "{\"choices\":[{\"delta\":{\"content\":\"a\"}},{\"delta\":{\"content\":\"b\"}}]}"
JsonNoChoices == "{\"id\":\"x\"}"
JsonEmptyChoices == "{\"choices\":[]}"
JsonNoDelta == "{\"choices\":[{\"index\":0}]}"
JsonNoContent == "{\"choices\":[{\"delta\":{}}]}"
JsonText == "{\"choices\":[{\"text\":\"To\"}]}"
JsonMessage == "{\"choices\":[{\"message\":{\"content\":\"Hi\"}}]}"
\* a chat event with a non-ASCII content, sent as JsonOpen, bytes, JsonClose
JsonOpen == "{\"choices\":[{\"delta\":{\"content\":\""
JsonClose == "\"}}]}"

StringChars == {EAcute, Replacement}

AtomValue ==
  (JsonHe :> EventValue(TRUE, << Choice("delta", <<"He">>) >>))
  @@ (JsonLlo :> EventValue(TRUE, << Choice("delta", <<"llo">>) >>))
  @@ (JsonAB :> EventValue(TRUE, << Choice("delta", <<"a">>), Choice("delta", <<"b">>) >>))
  @@ (JsonNoChoices :> EventValue(FALSE, <<>>))
  @@ (JsonEmptyChoices :> EventValue(TRUE, <<>>))
  @@ (JsonNoDelta :> EventValue(TRUE, << Choice("bare", <<>>) >>))
  @@ (JsonNoContent :> EventValue(TRUE, << Choice("deltaEmpty", <<>>) >>))
  @@ (JsonText :> EventValue(TRUE, << Choice("text", <<"To">>) >>))
  @@ (JsonMessage :> EventValue(TRUE, << Choice("message", <<"Hi">>) >>))

\* JSON.parse(text): [ok |-> FALSE] stands for the SyntaxError it throws
JsonParse(text) ==
  LET t == Trim(text)
  IN IF Len(t) = 1 /\ t[1] \in DOMAIN AtomValue
     THEN [ok |-> TRUE, value |-> AtomValue[t[1]]]
     ELSE IF /\ Len(t) >= 2
             /\ t[1] = JsonOpen
             /\ t[Len(t)] = JsonClose
             /\ \A i \in 2..(Len(t) - 1) : t[i] \in StringChars
     THEN [ok |-> TRUE,
           value |-> EventValue(TRUE, << Choice("delta", SubSeq(t, 2, Len(t) - 1)) >>)]
     ELSE [ok |-> FALSE, value |-> EventValue(FALSE, <<>>)]

\* chunkToDataArray(chunkString).  ok = FALSE stands for the SyntaxError of
\* JSON.parse; sawDone records that the early return at "data: [DONE]" was
\* taken (the caller only sees dataArray)
RECURSIVE DataLinesToArray(_, _)
DataLinesToArray(dataLines, dataArray) ==
  IF dataLines = <<>> THEN [ok |-> TRUE, data |-> dataArray, sawDone |-> FALSE]
  ELSE LET dataLine == Trim(Head(dataLines))
       IN IF dataLine # <<>> /\ dataLine[1] = DataPrefix
          THEN IF dataLine = << DataPrefix, DoneText >>
               THEN [ok |-> TRUE, data |-> dataArray, sawDone |-> TRUE]
               ELSE LET parsed == JsonParse(Tail(dataLine))
                    IN IF parsed.ok
                       THEN DataLinesToArray(Tail(dataLines), Append(dataArray, parsed.value))
                       ELSE [ok |-> FALSE, data |-> dataArray, sawDone |-> FALSE]
          ELSE DataLinesToArray(Tail(dataLines), dataArray)

chunkToDataArray(chunkString) ==
  DataLinesToArray(SplitDoubleNewline(chunkString), <<>>)

\* the for loop body reading choices[0] instead of the last choice
ChatContentFirstChoice(data) ==
  IF ~data.hasChoices THEN [ok |-> TRUE, emit |-> FALSE, content |-> <<>>]
  ELSE IF data.choices = <<>> THEN [ok |-> FALSE, emit |-> FALSE, content |-> <<>>]
  ELSE LET firstChoice == data.choices[1]
       IN CASE firstChoice.kind = "delta" ->
                 [ok |-> TRUE, emit |-> TRUE, content |-> firstChoice.str]
            [] firstChoice.kind = "deltaEmpty" ->
                 [ok |-> TRUE, emit |-> TRUE, content |-> <<>>]
            [] OTHER -> [ok |-> FALSE, emit |-> FALSE, content |-> <<>>]

\* the for loop body without the "if (!choices) continue" guard
ChatContentNoGuard(data) ==
  IF ~data.hasChoices \/ data.choices = <<>>
  THEN [ok |-> FALSE, emit |-> FALSE, content |-> <<>>]
  ELSE LET lastChoice == data.choices[Len(data.choices)]
       IN CASE lastChoice.kind = "delta" ->
                 [ok |-> TRUE, emit |-> TRUE, content |-> lastChoice.str]
            [] lastChoice.kind = "deltaEmpty" ->
                 [ok |-> TRUE, emit |-> TRUE, content |-> <<>>]
            [] OTHER -> [ok |-> FALSE, emit |-> FALSE, content |-> <<>>]

\* the body of the for loop of streamChatCompletion for one event: skip
\* when choices is absent, else the content of the last choice; ok = FALSE
\* stands for the TypeError of reading a property of undefined
ChatContent(data) ==
  IF ~data.hasChoices THEN [ok |-> TRUE, emit |-> FALSE, content |-> <<>>]
  ELSE IF data.choices = <<>> THEN [ok |-> FALSE, emit |-> FALSE, content |-> <<>>]
  ELSE LET lastChoice == data.choices[Len(data.choices)]
       IN CASE lastChoice.kind = "delta" ->
                 [ok |-> TRUE, emit |-> TRUE, content |-> lastChoice.str]
            [] lastChoice.kind = "deltaEmpty" ->
                 [ok |-> TRUE, emit |-> TRUE, content |-> <<>>]
            [] OTHER -> [ok |-> FALSE, emit |-> FALSE, content |-> <<>>]

\* the body of the for loop of streamInstructCompletion for one event:
\* data.choices[0].text; ok = FALSE stands for the TypeError of reading a
\* property of undefined or of writing undefined to the response
InstructContent(data) ==
  IF ~data.hasChoices \/ data.choices = <<>>
  THEN [ok |-> FALSE, emit |-> FALSE, content |-> <<>>]
  ELSE IF data.choices[1].kind = "text"
       THEN [ok |-> TRUE, emit |-> TRUE, content |-> data.choices[1].str]
       ELSE [ok |-> FALSE, emit |-> FALSE, content |-> <<>>]

EventContent(apiType, data) ==
  IF apiType = "chat" THEN ChatContent(data) ELSE InstructContent(data)

\* the for loop over dataArray: the fragments handed to onChunk, in order,
\* up to the first event that throws
RECURSIVE EmitAll(_, _, _)
EmitAll(apiType, dataArray, out) ==
  IF dataArray = <<>> THEN [ok |-> TRUE, out |-> out]
  ELSE LET c == EventContent(apiType, Head(dataArray))
       IN IF ~c.ok THEN [ok |-> FALSE, out |-> out]
          ELSE EmitAll(apiType, Tail(dataArray),
                       IF c.emit THEN Append(out, c.content) ELSE out)

\* response.text() then JSON.parse then data.choices[0].message.content
BufferedCompletion(bytes) ==
  LET parsed == JsonParse(Utf8Decode(bytes))
  IN IF /\ parsed.ok
        /\ parsed.value.hasChoices
        /\ parsed.value.choices # <<>>
        /\ parsed.value.choices[1].kind = "message"
     THEN [ok |-> TRUE, content |-> parsed.value.choices[1].str]
     ELSE [ok |-> FALSE, content |-> <<>>]

(***************************************************************************)
(* Request inputs                                                          *)
(***************************************************************************)
\* a speaker outside z.enum(["bot", "human"])
BadParty == "system"

\* the i-th message of a conversation carries its own text
TextOf(i) == << "m", ToString(i) >>

ConversationsOfLen(n) ==
  { [i \in 1..n |-> [party |-> ps[i], text |-> TextOf(i)]] :
      ps \in [1..n -> {"human", "bot", BadParty}] }

Conversations == UNION { ConversationsOfLen(n) : n \in 0..MaxMsgs }

\* reqBody: wellFormed = FALSE is a body JSON.parse rejects
MalformedBody == [wellFormed |-> FALSE, messages |-> <<>>, model |-> UnknownModel]

Bodies ==
  { MalformedBody }
  \cup [wellFormed : {TRUE}, messages : Conversations, model : MODELS \cup {UnknownModel}]

\* a credential is a string, written as the sequence of its characters;
\* Unset is the cookie that was not sent, or the secret that is not
\* configured
Unset == << Undefined >>

TheSecret == << "k", "1" >>

\* the __Secure-authKey cookie: absent, empty, a proper prefix of the
\* secret, the secret, a string of the same length, a longer string
AuthKeys == { Unset, <<>>, << "k" >>, TheSecret, << "k", "2" >>, << "k", "1", "x" >> }

\* secrets.AUTH_KEY
SecretKeys == { Unset, <<>>, TheSecret }

\* the keys crypto.randomBytes(32) may draw
RandomKeys == {"r1", "r2"}

(***************************************************************************)
(* Upstream bodies                                                         *)
(***************************************************************************)
Comment == ": ping"

Frame(payload) == << DataPrefix >> \o payload \o << LF, LF >>

Blocks ==
  { Frame(<< JsonHe >>),
    Frame(<< JsonLlo >>),
    Frame(<< DoneText >>),
    Frame(<< JsonAB >>),
    Frame(<< JsonNoChoices >>),
    Frame(<< JsonEmptyChoices >>),
    Frame(<< JsonNoDelta >>),
    Frame(<< JsonNoContent >>),
    Frame(<< JsonText >>),
    Frame(<< JsonOpen, "C3", "A9", JsonClose >>),
    << DataPrefix, JsonHe, CR, LF, CR, LF >>,
    << DataPrefix, JsonLlo, LF >>,
    << Comment, LF, DataPrefix, JsonHe, LF, LF >> }

RECURSIVE Streams(_)
Streams(n) ==
  IF n = 0 THEN { <<>> }
  ELSE Streams(n - 1) \cup { s \o b : s \in Streams(n - 1), b \in Blocks }

\* "He", "llo", [DONE]
HelloStream == Frame(<< JsonHe >>) \o Frame(<< JsonLlo >>) \o Frame(<< DoneText >>)

SampleBodies ==
  { <<>>, HelloStream, << JsonMessage >>, Frame(<< JsonText >>) \o Frame(<< DoneText >>) }

\* what fetch() will answer: it rejects, or resolves with a status, an
\* error text and a body (hasBody = FALSE is response.body === null)
Response(kind, body) ==
  [kind |-> kind, body |-> body,
   status |-> IF kind = "reject" THEN 0 ELSE 200, text |-> ""]

\* a non-2xx answer: response.status and what response.text() resolves to
NotOk(status, text) == [kind |-> "notok", body |-> <<>>, status |-> status, text |-> text]

NotOkResponses ==
  { NotOk(st, tx) : st \in {429, 500}, tx \in {"rate limited", "{\"error\":\"upstream failure\"}"} }

SampleResponses ==
  { Response("reject", <<>>), Response("nobody", <<>>) }
  \cup NotOkResponses
  \cup { Response("ok", b) : b \in SampleBodies }

\* the message without the body text
HttpErrorMessageStatusOnly(status, text) ==
  ToString(<< "HTTP error! status: ", status >>)

\* `HTTP error! status: ${response.status}. text ${text}`: the string made
\* of the template's pieces, the status and the text
HttpErrorMessage(status, text) ==
  ToString(<< "HTTP error! status: ", status, ". text ", text >>)

(***************************************************************************)
(* Request handling                                                        *)
(***************************************************************************)
\* z.object({messages, model}).parse
BodySchemaOk(body) ==
  /\ \A i \in 1..Len(body.messages) : body.messages[i].party \in {"bot", "human"}
  /\ body.model \in MODELS

\* the ordering checks without the check of the first message
ValidationErrorNoFirstCheck(messages) ==
  IF \A i \in 1..Len(messages) : messages[i].party # "human"
  THEN "Validation error: no human message found"
  ELSE "none"

\* the ordering checks without the check for a human message
ValidationErrorNoHumanCheck(messages) ==
  IF messages # <<>> /\ messages[1].party # "human"
  THEN "Validation error"
  ELSE "none"

\* the two ordering checks of postGenerateChatCompletionStreaming; the
\* message of the Error thrown, or "none"
ValidationError(messages) ==
  IF messages # <<>> /\ messages[1].party # "human"
  THEN "Validation error"
  ELSE IF \A i \in 1..Len(messages) : messages[i].party # "human"
       THEN "Validation error: no human message found"
       ELSE "none"

\* cookies, JSON.parse, BodySchema.parse and the ordering checks, in the
\* order of the code; the message of the first Error thrown, or "none"
Validate(body) ==
  IF ~body.wellFormed THEN "SyntaxError"
  ELSE IF ~BodySchemaOk(body) THEN "ZodError"
  ELSE ValidationError(body.messages)

CharCode == [c \in {"k", "1", "2", "x"} |->
               CASE c = "k" -> 1 [] c = "1" -> 2 [] c = "2" -> 3 [] c = "x" -> 4]

KeyCode == [k \in RandomKeys |-> IF k = "r1" THEN 2 ELSE 3]

\* crypto.createHmac("sha256", key).update(msg).digest(): a keyed digest
\* of fixed size (five values here), so that two messages may have the
\* same digest
RECURSIVE Hmac(_, _)
Hmac(key, msg) ==
  IF msg = <<>> THEN 1
  ELSE (Hmac(key, SubSeq(msg, 1, Len(msg) - 1)) * KeyCode[key]
        + CharCode[msg[Len(msg)]]) % 5

\* the comparison of the digests alone
timeSafeCompareDigests(a, b, key) ==
  LET ah == Hmac(key, a)
      bh == Hmac(key, b)
  IN ah = bh

\* the operations of a comparison that evaluates both operands of the
\* conjunction
timeSafeCompareStepsEager(a, b, key) ==
  << [op |-> "randomBytes", key |-> key, arg |-> <<>>],
     [op |-> "createHmac", key |-> key, arg |-> a],
     [op |-> "createHmac", key |-> key, arg |-> b],
     [op |-> "timingSafeEqual", key |-> key, arg |-> <<>>],
     [op |-> "===", key |-> key, arg |-> <<>>] >>

\* the operations one call of timeSafeCompare performs, in order: the key
\* is drawn, both arguments are hashed with it, the digests are compared,
\* and && evaluates a === b only when the digests are equal
timeSafeCompareSteps(a, b, key) ==
  << [op |-> "randomBytes", key |-> key, arg |-> <<>>],
     [op |-> "createHmac", key |-> key, arg |-> a],
     [op |-> "createHmac", key |-> key, arg |-> b],
     [op |-> "timingSafeEqual", key |-> key, arg |-> <<>>] >>
  \o (IF Hmac(key, a) = Hmac(key, b)
      THEN << [op |-> "===", key |-> key, arg |-> <<>>] >>
      ELSE <<>>)

\* crypto.timingSafeEqual(ah, bh) && a === b
timeSafeCompare(a, b, key) ==
  LET ah == Hmac(key, a)
      bh == Hmac(key, b)
  IN (ah = bh) /\ a = b

\* x ?? ""
OrEmpty(x) == IF x = Unset THEN <<>> ELSE x

\* the system turn in front of every conversation, whatever the setting
ChatMessagesAlwaysSystem(messages, systemMessage) ==
  << [role |-> "system", content |-> << "You are a helpful AI language model assistant." >>] >>
  \o [i \in 1..Len(messages) |->
        [role |-> IF messages[i].party = "human" THEN "user" ELSE "assistant",
         content |-> messages[i].text]]

ChatMessages(messages, systemMessage) ==
  (IF systemMessage = "custom"
   THEN << [role |-> "system", content |-> << "You are a helpful AI language model assistant." >>] >>
   ELSE <<>>)
  \o [i \in 1..Len(messages) |->
        [role |-> IF messages[i].party = "human" THEN "user" ELSE "assistant",
         content |-> messages[i].text]]

Preamble == "Hello, I am a chatbot powered by GPT-3. ..."
WINDOW == 25

\* the window taken from the start of the conversation: slice(0, 25)
generatePromptFromStart(messages) ==
  LET n == Len(messages)
      window == IF n > WINDOW THEN SubSeq(messages, 1, WINDOW) ELSE messages
      line(m) == << (IF m.party = "human" THEN "Human: " ELSE "Bot: ") >>
                 \o Trim(m.text) \o << LF, LF >>
  IN << Preamble >> \o Concat([i \in 1..Len(window) |-> line(window[i])]) \o << "Bot: " >>

generatePrompt(messages) ==
  LET n == Len(messages)
      window == IF n > WINDOW THEN SubSeq(messages, n - WINDOW + 1, n) ELSE messages
      line(m) == << (IF m.party = "human" THEN "Human: " ELSE "Bot: ") >>
                 \o Trim(m.text) \o << LF, LF >>
  IN << Preamble >> \o Concat([i \in 1..Len(window) |-> line(window[i])]) \o << "Bot: " >>

\* the outbound request of streamChatCompletion
\* the request that asks for a stream for every model but the o1 ones
ChatRequestStreamsGpt5(messages, model, cfg) ==
  [method |-> "POST", url |-> cfg.apiUrl, model |-> model,
   messages |-> ChatMessages(messages, cfg.systemMessage),
   prompt |-> <<>>,
   stream |-> model \notin {"o1-preview", "o1-mini"},
   stop |-> cfg.stop, max_tokens |-> 0]

ChatRequest(messages, model, cfg) ==
  [method |-> "POST", url |-> cfg.apiUrl, model |-> model,
   messages |-> ChatMessages(messages, cfg.systemMessage),
   prompt |-> <<>>,
   stream |-> model \notin {"o1-preview", "o1-mini", "gpt-5"},
   stop |-> cfg.stop, max_tokens |-> 0]

\* the request with a budget that leaves out the safety margin
InstructRequestNoMargin(messages, model, cfg, promptTokens) ==
  [method |-> "POST", url |-> cfg.apiUrl, model |-> model,
   messages |-> <<>>,
   prompt |-> generatePrompt(messages),
   stream |-> TRUE,
   stop |-> "END_OF_STREAM",
   max_tokens |-> MAX_TOKENS - promptTokens]

\* the outbound request of streamInstructCompletion
InstructRequest(messages, model, cfg, promptTokens) ==
  [method |-> "POST", url |-> cfg.apiUrl, model |-> model,
   messages |-> <<>>,
   prompt |-> generatePrompt(messages),
   stream |-> TRUE,
   stop |-> "END_OF_STREAM",
   max_tokens |-> MAX_TOKENS - promptTokens - TOKENS_SAFETY_MARGIN]

\* the budget test with > in place of >=
TooManyTokensStrict(promptTokens) == promptTokens > MAX_TOKENS - TOKENS_SAFETY_MARGIN

TooManyTokens(promptTokens) == promptTokens >= MAX_TOKENS - TOKENS_SAFETY_MARGIN

(***************************************************************************)
(* State                                                                   *)
(***************************************************************************)
VARIABLES
  reqBody,       \* the request body handed to postGenerateChatCompletionStreaming
  authKey,       \* the __Secure-authKey cookie, or Undefined
  secretAuthKey, \* secrets.AUTH_KEY, or Undefined
  tokenCount,    \* what tokenizer.encode(prompt).bpe.length returns
  upstream,      \* what the provider will answer to fetch()
  pc,            \* where the request's task is suspended
  rest,          \* the bytes of the upstream body not read yet
  buffer,        \* DoubleNewlineReader.buffer
  readerState,   \* "none", "open" or "cancelled"
  resHeaders,    \* the Content-Type set on the response, or Undefined
  headersSent,   \* res.headersSent
  resWrites,     \* what res.write was given, in order
  endCalls,      \* how many times res.end() ran
  fetches,       \* the outbound requests issued, in order
  compares,      \* the calls of timeSafeCompare: arguments, key, digests, result
  statusCode,    \* res.statusCode
  clientGone,    \* the client's connection has closed
  error,         \* the message of the Error the controller caught, or "none"
  sawDone,       \* a "data: [DONE]" frame has been extracted
  received,      \* the decoded chunks read so far, concatenated
  remainder,     \* the value readUntilDoubleNewline returned with done = true
  returned,      \* the values readUntilDoubleNewline returned with done = false
  flights        \* the generate requests streaming side by side, if any

vars ==
  << reqBody, authKey, secretAuthKey, tokenCount, upstream, pc, rest, buffer,
     readerState, resHeaders, headersSent, resWrites, endCalls, fetches,
     compares, statusCode, clientGone, error, sawDone, received, remainder,
     returned, flights >>

inputs == << reqBody, authKey, secretAuthKey, tokenCount, upstream >>

\* no request is streaming beside the one the other variables describe
NoFlights == <<>>

TextWrite(content) == [kind |-> "text", content |-> content, message |-> ""]

\* JSON.stringify({ success: true, isAuthed })
IsAuthedWrite(isAuthed) ==
  [kind |-> "isAuthed", content |-> <<>>, message |-> "", isAuthed |-> isAuthed]
JsonErrorWrite(message) == [kind |-> "json", content |-> <<>>, message |-> message]

\* the request of the end-to-end example: a valid conversation, no cookie
PlainBodies ==
  [wellFormed : {TRUE},
   messages : { << [party |-> "human", text |-> TextOf(1)] >> },
   model : {"gpt-3.5-turbo", "gpt-3.5-turbo-instruct"}]

TokenCounts == {100, MAX_TOKENS - TOKENS_SAFETY_MARGIN - 1, MAX_TOKENS - TOKENS_SAFETY_MARGIN,
                MAX_TOKENS}

\* the response, the reader and the logs before the handler has run
Fresh ==
  /\ pc = "start"
  /\ rest = <<>>
  /\ buffer = <<>>
  /\ readerState = "none"
  /\ resHeaders = Undefined
  /\ headersSent = FALSE
  /\ resWrites = <<>>
  /\ endCalls = 0
  /\ fetches = <<>>
  /\ compares = <<>>
  /\ statusCode = 200
  /\ clientGone = FALSE
  /\ error = "none"
  /\ sawDone = FALSE
  /\ received = <<>>
  /\ remainder = <<>>
  /\ returned = <<>>

Init ==
  /\ \/ /\ reqBody \in Bodies
        /\ authKey \in AuthKeys
        /\ secretAuthKey \in SecretKeys
        /\ upstream \in SampleResponses
        /\ tokenCount \in IF reqBody.model = "gpt-3.5-turbo-instruct" /\ upstream.body = <<>>
                          THEN TokenCounts ELSE {100}
     \/ /\ reqBody \in PlainBodies
        /\ authKey = Unset
        /\ secretAuthKey = TheSecret
        /\ upstream \in { Response("ok", b) : b \in Streams(MaxEvents) }
        /\ tokenCount = 100
  /\ Fresh
  /\ flights = NoFlights

(***************************************************************************)
(* postGenerateChatCompletionStreaming                                     *)
(***************************************************************************)
stream == << rest, buffer, readerState, sawDone, received, remainder, returned >>

\* the fragments put in front of what was written
WriteFragmentsInFront(writes, out) ==
  [i \in 1..Len(out) |-> TextWrite(out[i])] \o writes

\* onChunk for each fragment in turn: res.write(content)
WriteFragments(writes, out) ==
  writes \o [i \in 1..Len(out) |-> TextWrite(out[i])]

\* res.write on a response whose connection has closed sends nothing and
\* leaves headersSent as it was
Accepted(writes) == IF clientGone THEN resWrites ELSE writes

\* a catch block that takes the headers for sent once they are set
ThrowHeadersSet(message, headers, writes) ==
  LET sent == headersSent \/ Len(writes) > Len(resWrites) \/ headers # Undefined
  IN /\ error' = message
     /\ resHeaders' = IF sent THEN headers ELSE "application/json"
     /\ resWrites' = IF sent THEN writes
                     ELSE Accepted(Append(writes, JsonErrorWrite(message)))
     /\ headersSent' = (sent \/ ~clientGone)
     /\ endCalls' = IF endCalls = 0 THEN endCalls + 1 ELSE endCalls
     /\ pc' = "done"

\* a catch block that writes the payload and leaves the response open
ThrowNoEnd(message, headers, writes) ==
  LET sent == headersSent \/ Len(writes) > Len(resWrites)
  IN /\ error' = message
     /\ resHeaders' = IF sent THEN headers ELSE "application/json"
     /\ resWrites' = IF sent THEN writes
                     ELSE Accepted(Append(writes, JsonErrorWrite(message)))
     /\ headersSent' = (sent \/ ~clientGone)
     /\ endCalls' = endCalls
     /\ pc' = "done"

\* the catch block of an earlier revision: the JSON error payload is
\* written whatever was sent before
ThrowAlwaysJson(message, headers, writes) ==
  /\ error' = message
  /\ resHeaders' = "application/json"
  /\ resWrites' = Accepted(Append(writes, JsonErrorWrite(message)))
  /\ headersSent' = (headersSent \/ Len(writes) > Len(resWrites) \/ ~clientGone)
  /\ endCalls' = IF endCalls = 0 THEN endCalls + 1 ELSE endCalls
  /\ pc' = "done"

\* a catch block whose else branch and whose finally block both call
\* res.end() without looking at writableEnded
ThrowEndsAgain(message, headers, writes) ==
  LET sent == headersSent \/ Len(writes) > Len(resWrites)
  IN /\ error' = message
     /\ resHeaders' = IF sent THEN headers ELSE "application/json"
     /\ resWrites' = IF sent THEN writes
                     ELSE Accepted(Append(writes, JsonErrorWrite(message)))
     /\ headersSent' = (sent \/ ~clientGone)
     /\ endCalls' = IF sent THEN endCalls + 2 ELSE endCalls + 1
     /\ pc' = "done"

\* the catch block: the JSON error payload when no header was sent yet,
\* then res.end() unless the response was ended.  headers and writes are
\* the response as the failing code left it
Throw(message, headers, writes) ==
  LET sent == headersSent \/ Len(writes) > Len(resWrites)
  IN /\ error' = message
     /\ resHeaders' = IF sent THEN headers ELSE "application/json"
     /\ resWrites' = IF sent THEN writes
                     ELSE Accepted(Append(writes, JsonErrorWrite(message)))
     /\ headersSent' = (sent \/ ~clientGone)
     /\ endCalls' = IF endCalls = 0 THEN endCalls + 1 ELSE endCalls
     /\ pc' = "done"

\* the catch of the stream function without the cancel
CatchRethrows(state) == state

\* the catch of the stream function: await reader.cancel(), rethrow
CatchCancel(state) == "cancelled"

\* a fetch that is issued a second time
DispatchRetry(request) ==
  /\ fetches' = fetches \o << request, request >>
  /\ resHeaders' = "text/event-stream"
  /\ pc' = "fetch"
  /\ UNCHANGED << headersSent, resWrites, endCalls, error >>

\* fetch(apiUrl, options) is issued and awaited
Dispatch(request) ==
  /\ fetches' = Append(fetches, request)
  /\ resHeaders' = "text/event-stream"
  /\ pc' = "fetch"
  /\ UNCHANGED << headersSent, resWrites, endCalls, error >>

\* the handler up to its first await: validation, getModelConfig, the
\* response headers, the auth gate or the token budget, and the fetch
Generate ==
  /\ pc = "start"
  /\ LET invalid == Validate(reqBody)
     IN IF invalid # "none"
        THEN /\ Throw(invalid, resHeaders, resWrites)
             /\ UNCHANGED << fetches, compares >>
        ELSE LET cfg == getModelConfig(reqBody.model)
             IN IF cfg.apiType = "chat"
                THEN IF cfg.authed
                     THEN \E key \in RandomKeys :
                            LET a == OrEmpty(authKey)
                                b == OrEmpty(secretAuthKey)
                                equal == timeSafeCompare(a, b, key)
                            IN
                            /\ compares' = Append(compares,
                                 [a |-> a, b |-> b, key |-> key, ah |-> Hmac(key, a),
                                  bh |-> Hmac(key, b), result |-> equal,
                                  steps |-> timeSafeCompareSteps(a, b, key)])
                            /\ IF equal
                               THEN Dispatch(ChatRequest(reqBody.messages, reqBody.model, cfg))
                               ELSE /\ Throw("Invalid auth key", "text/event-stream", resWrites)
                                    /\ UNCHANGED fetches
                     ELSE /\ Dispatch(ChatRequest(reqBody.messages, reqBody.model, cfg))
                          /\ UNCHANGED compares
                ELSE /\ UNCHANGED compares
                     /\ IF TooManyTokens(tokenCount)
                        THEN /\ Throw("Too many tokens.", "text/event-stream", resWrites)
                             /\ UNCHANGED fetches
                        ELSE Dispatch(InstructRequest(reqBody.messages, reqBody.model, cfg,
                                                      tokenCount))
  /\ UNCHANGED << inputs, statusCode, clientGone, flights, stream >>

\* fetch rejects (network failure)
FetchRejects ==
  /\ pc = "fetch"
  /\ upstream.kind = "reject"
  /\ Throw("fetch failed", resHeaders, resWrites)
  /\ UNCHANGED << inputs, statusCode, clientGone, flights, stream, fetches, compares >>

\* !response.ok: await response.text(), throw
FetchNotOk ==
  /\ pc = "fetch"
  /\ upstream.kind = "notok"
  /\ Throw(HttpErrorMessage(upstream.status, upstream.text), resHeaders, resWrites)
  /\ UNCHANGED << inputs, statusCode, clientGone, flights, stream, fetches, compares >>

\* !response.body
FetchNoBody ==
  /\ pc = "fetch"
  /\ upstream.kind = "nobody"
  /\ Throw("No response body", resHeaders, resWrites)
  /\ UNCHANGED << inputs, statusCode, clientGone, flights, stream, fetches, compares >>

\* a 2xx answer with a body: the buffered models await response.text(),
\* the others get the reader and enter the loop
FetchOk ==
  /\ pc = "fetch"
  /\ upstream.kind = "ok"
  /\ IF getModelConfig(reqBody.model).apiType = "chat" /\ reqBody.model \in BufferedModels
     THEN /\ pc' = "text"
          /\ UNCHANGED stream
     ELSE /\ pc' = "loop"
          /\ readerState' = "open"
          /\ rest' = upstream.body
          /\ buffer' = <<>>
          /\ UNCHANGED << sawDone, received, remainder, returned >>
  /\ UNCHANGED << inputs, statusCode, clientGone, flights,
                  resHeaders, headersSent, resWrites, endCalls, fetches,
                  compares, error >>

\* response.text() resolves: parse, onChunk(completion), return, res.end()
BufferedBody ==
  /\ pc = "text"
  /\ LET c == BufferedCompletion(upstream.body)
     IN IF c.ok
        THEN /\ resWrites' = Accepted(WriteFragments(resWrites, << c.content >>))
             /\ headersSent' = (headersSent \/ ~clientGone)
             /\ endCalls' = endCalls + 1
             /\ pc' = "done"
             /\ UNCHANGED << resHeaders, error >>
        ELSE Throw("Cannot read the completion", resHeaders, resWrites)
  /\ UNCHANGED << inputs, statusCode, clientGone, flights, stream, fetches, compares >>

\* a reader that never finds a frame and reads on
HasFrameNever(buf) == FALSE

\* this.buffer.indexOf('\n\n') !== -1
HasFrame(buf) == IndexOfDoubleNewline(buf) # 0

\* a reader that cuts at the last "\n\n" of the buffer
UpToLastDoubleNewline(buf, pos) ==
  LET last == CHOOSE i \in pos..Len(buf) :
                /\ i < Len(buf) /\ buf[i] = LF /\ buf[i + 1] = LF
                /\ \A j \in (i + 1)..(Len(buf) - 1) : ~(buf[j] = LF /\ buf[j + 1] = LF)
  IN SubSeq(buf, 1, last + 1)

\* this.buffer.substring(0, doubleNewlineIndex + 2), the value returned
UpToDoubleNewline(buf, pos) == SubSeq(buf, 1, pos + 1)

\* a reader that keeps the second newline of the delimiter in the buffer
AfterDoubleNewlineKeepsLF(buf, len) == SubSeq(buf, len, Len(buf))

\* this.buffer.substring(doubleNewlineIndex + 2), what stays in the buffer
\* after a value of len characters was returned
AfterDoubleNewline(buf, len) == SubSeq(buf, len + 1, Len(buf))

\* readUntilDoubleNewline finds "\n\n" in the buffer and returns the text
\* up to it; the caller runs chunkToDataArray and the for loop on it
ProcessFrame ==
  /\ pc = "loop"
  /\ HasFrame(buffer)
  /\ \E pos \in { IndexOfDoubleNewline(buffer) } :
     \E value \in { UpToDoubleNewline(buffer, pos) } :
     \E dataArray \in { chunkToDataArray(value) } :
     \E emitted \in { EmitAll(getModelConfig(reqBody.model).apiType, dataArray.data, <<>>) } :
     \E writes \in { Accepted(WriteFragments(resWrites, emitted.out)) } :
        /\ buffer' = AfterDoubleNewline(buffer, Len(value))
        /\ returned' = Append(returned, value)
        /\ sawDone' = (sawDone \/ dataArray.sawDone)
        /\ IF ~dataArray.ok
           THEN /\ readerState' = CatchCancel(readerState)
                /\ Throw("SyntaxError", resHeaders, resWrites)
           ELSE IF ~emitted.ok
           THEN /\ readerState' = CatchCancel(readerState)
                /\ Throw("TypeError", resHeaders, writes)
           ELSE /\ resWrites' = writes
                /\ headersSent' = (headersSent \/ Len(writes) > Len(resWrites))
                /\ UNCHANGED << readerState, resHeaders, endCalls, error, pc >>
  /\ UNCHANGED << inputs, statusCode, clientGone, flights,
                  rest, received, remainder, fetches, compares >>

\* reader.read() resolves with a chunk: decode, normalise, append
ReadChunk ==
  /\ pc = "loop"
  /\ ~HasFrame(buffer)
  /\ rest # <<>>
  /\ \E n \in 1..Len(rest) :
       LET dataString == DecodeChunk(SubSeq(rest, 1, n))
       IN /\ buffer' = buffer \o dataString
          /\ received' = received \o dataString
          /\ rest' = SubSeq(rest, n + 1, Len(rest))
  /\ UNCHANGED << inputs, statusCode, clientGone, flights,
                  readerState, sawDone, remainder, returned, resHeaders,
                  headersSent, resWrites, endCalls, fetches, compares, error, pc >>

\* reader.read() resolves with done: readUntilDoubleNewline returns
\* done = true with what the buffer held, the caller breaks out of the
\* loop, cancels the reader and returns; the controller ends the response
ReadEnd ==
  /\ pc = "loop"
  /\ ~HasFrame(buffer)
  /\ rest = <<>>
  /\ remainder' = buffer
  /\ buffer' = <<>>
  /\ readerState' = "cancelled"
  /\ endCalls' = endCalls + 1
  /\ pc' = "done"
  /\ UNCHANGED << inputs, statusCode, clientGone, flights,
                  rest, sawDone, received, returned, resHeaders,
                  headersSent, resWrites, fetches, compares, error >>

\* reader.read() rejects: the catch of the stream function cancels the
\* reader and rethrows
ReadFail ==
  /\ pc = "loop"
  /\ ~HasFrame(buffer)
  /\ readerState' = CatchCancel(readerState)
  /\ Throw("read failed", resHeaders, resWrites)
  /\ UNCHANGED << inputs, statusCode, clientGone, flights,
                  rest, buffer, sawDone, received, remainder, returned,
                  fetches, compares >>

Next ==
  \/ Generate
  \/ FetchRejects
  \/ FetchNotOk
  \/ FetchNoBody
  \/ FetchOk
  \/ BufferedBody
  \/ ProcessFrame
  \/ ReadChunk
  \/ ReadEnd
  \/ ReadFail

Spec == Init /\ [][Next]_vars

\* requests that take every path through the handler: bodies that fail
\* each validation step, plain and privileged models with and without the
\* right cookie, prompts within and over the budget, every sample answer
LiveBodies ==
  { MalformedBody }
  \cup [wellFormed : {TRUE},
        messages : ConversationsOfLen(0) \cup ConversationsOfLen(1),
        model : {"gpt-3.5-turbo", "gpt-3.5-turbo-instruct", "gpt-4", "gpt-5", UnknownModel}]

InitLive ==
  /\ reqBody \in LiveBodies
  /\ authKey \in {Unset, TheSecret}
  /\ secretAuthKey = TheSecret
  /\ upstream \in SampleResponses
  /\ tokenCount \in IF reqBody.model = "gpt-3.5-turbo-instruct" /\ upstream.body = <<>>
                    THEN TokenCounts ELSE {100}
  /\ Fresh
  /\ flights = NoFlights

\* the event loop runs every continuation that is ready, and every fetch
\* and every read the handler awaits is settled in the end
SpecLive == InitLive /\ [][Next]_vars /\ WF_vars(Next)

\* the client's connection closes while the request is being served; no
\* listener is registered for it
ClientDisconnect ==
  /\ pc \in {"fetch", "text", "loop"}
  /\ ~clientGone
  /\ clientGone' = TRUE
  /\ UNCHANGED << inputs, statusCode, flights, stream, resHeaders, headersSent,
                  resWrites, endCalls, fetches, compares, error, pc >>

NextDisconnect ==
  \/ Next
  \/ ClientDisconnect

\* the handler with a client that may go away
SpecDisconnect == Init /\ [][NextDisconnect]_vars

(***************************************************************************)
(* The outbound request of long conversations                              *)
(***************************************************************************)
\* who speaks at position i
PartyPatterns == {"alternate", "humans", "oneHuman", "pairs"}

PartyAt(pattern, i) ==
  CASE pattern = "alternate" -> IF i % 2 = 1 THEN "human" ELSE "bot"
    [] pattern = "humans" -> "human"
    [] pattern = "oneHuman" -> IF i = 1 THEN "human" ELSE "bot"
    [] pattern = "pairs" -> IF i % 4 \in {1, 2} THEN "human" ELSE "bot"

\* every third text comes with white space around it
PaddedTextOf(i) == IF i % 3 = 0 THEN << SP >> \o TextOf(i) \o << LF >> ELSE TextOf(i)

LongConversation(pattern, n) ==
  [i \in 1..n |-> [party |-> PartyAt(pattern, i), text |-> PaddedTextOf(i)]]

LongConversations ==
  { LongConversation(p, n) : p \in PartyPatterns, n \in 0..MaxLongMsgs }

\* any model, a conversation of up to MaxLongMsgs messages, the right
\* cookie, a provider that answers without a body
InitBuild ==
  /\ reqBody \in [wellFormed : {TRUE}, messages : LongConversations, model : MODELS]
  /\ authKey = TheSecret
  /\ secretAuthKey = TheSecret
  /\ upstream = Response("nobody", <<>>)
  /\ tokenCount = 100
  /\ Fresh
  /\ flights = NoFlights

NextBuild ==
  \/ Generate
  \/ FetchNoBody

SpecBuild == InitBuild /\ [][NextBuild]_vars

(***************************************************************************)
(* postIsAuthed                                                            *)
(***************************************************************************)
\* an answer that does not look at the cookie
IsAuthedAlways(cookie, secret, key) == TRUE

\* an answer that is false whenever the request carries no cookie
IsAuthedNeedsCookie(cookie, secret, key) ==
  cookie # Unset /\ timeSafeCompare(OrEmpty(cookie), OrEmpty(secret), key)

\* timeSafeCompare(authKey ?? "", secrets.AUTH_KEY ?? "")
IsAuthed(cookie, secret, key) == timeSafeCompare(OrEmpty(cookie), OrEmpty(secret), key)

\* POST /is-authed: the body is read and dropped, the answer is written
\* and the response ended in the finally block
PostIsAuthed ==
  /\ pc = "start"
  /\ \E key \in RandomKeys :
       LET a == OrEmpty(authKey)
           b == OrEmpty(secretAuthKey)
           isAuthed == IsAuthed(authKey, secretAuthKey, key)
       IN /\ compares' = Append(compares,
               [a |-> a, b |-> b, key |-> key, ah |-> Hmac(key, a),
                bh |-> Hmac(key, b), result |-> isAuthed,
                steps |-> timeSafeCompareSteps(a, b, key)])
          /\ resWrites' = Accepted(Append(resWrites, IsAuthedWrite(isAuthed)))
  /\ resHeaders' = "application/json"
  /\ headersSent' = TRUE
  /\ endCalls' = endCalls + 1
  /\ pc' = "done"
  /\ UNCHANGED << inputs, statusCode, clientGone, flights, stream, fetches, error >>

\* any body, any cookie, any secret
InitIsAuthed ==
  /\ reqBody \in Bodies
  /\ authKey \in AuthKeys
  /\ secretAuthKey \in SecretKeys
  /\ upstream = Response("nobody", <<>>)
  /\ tokenCount = 100
  /\ Fresh
  /\ flights = NoFlights

NextIsAuthed == PostIsAuthed

SpecIsAuthed == InitIsAuthed /\ [][NextIsAuthed]_vars

(***************************************************************************)
(* Two generate requests streaming side by side                            *)
(***************************************************************************)
Requests == {1, 2}

\* "b" (the last choice of the event), [DONE]
ABStream == Frame(<< JsonAB >>) \o Frame(<< DoneText >>)

PairStreams == { HelloStream, ABStream, Frame(<< JsonLlo >>) \o Frame(<< JsonHe >>) }

\* one buffer for all the readers
BufferOfShared(r) == 1

\* this.buffer of the DoubleNewlineReader that request r constructed
BufferOf(r) == r

\* both requests have passed validation and fetch and hold their reader
InitPair ==
  /\ reqBody \in { b \in PlainBodies : b.model = "gpt-3.5-turbo" }
  /\ authKey = Unset
  /\ secretAuthKey = TheSecret
  /\ upstream = Response("nobody", <<>>)
  /\ tokenCount = 100
  /\ Fresh
  /\ \E bodies \in [Requests -> PairStreams] :
       flights = [req |-> [r \in Requests |->
                             [pc |-> "loop", body |-> bodies[r], rest |-> bodies[r],
                              received |-> <<>>, resWrites |-> <<>>]],
                  buffer |-> [r \in Requests |-> <<>>]]

single ==
  << reqBody, authKey, secretAuthKey, tokenCount, upstream, pc, rest, buffer,
     readerState, resHeaders, headersSent, resWrites, endCalls, fetches,
     compares, statusCode, clientGone, error, sawDone, received, remainder,
     returned >>

\* request r: reader.read() resolves with a chunk
PairReadChunk(r) ==
  LET f == flights.req[r]
      slot == BufferOf(r)
  IN /\ f.pc = "loop"
     /\ ~HasFrame(flights.buffer[slot])
     /\ f.rest # <<>>
     /\ \E n \in 1..Len(f.rest) :
          LET dataString == DecodeChunk(SubSeq(f.rest, 1, n))
          IN flights' =
               [req |-> [flights.req EXCEPT
                           ![r] = [f EXCEPT !.rest = SubSeq(f.rest, n + 1, Len(f.rest)),
                                            !.received = f.received \o dataString]],
                buffer |-> [flights.buffer EXCEPT ![slot] = @ \o dataString]]
     /\ UNCHANGED single

\* request r: a frame is taken from the buffer and its fragments written
PairProcessFrame(r) ==
  LET f == flights.req[r]
      slot == BufferOf(r)
      buf == flights.buffer[slot]
      pos == IndexOfDoubleNewline(buf)
      dataArray == chunkToDataArray(SubSeq(buf, 1, pos + 1))
      emitted == EmitAll("chat", dataArray.data, <<>>)
  IN /\ f.pc = "loop"
     /\ HasFrame(buf)
     /\ flights' =
          [req |-> [flights.req EXCEPT
                      ![r] = IF dataArray.ok /\ emitted.ok
                             THEN [f EXCEPT !.resWrites = WriteFragments(@, emitted.out)]
                             ELSE [f EXCEPT !.pc = "failed"]],
           buffer |-> [flights.buffer EXCEPT ![slot] = SubSeq(buf, pos + 2, Len(buf))]]
     /\ UNCHANGED single

\* request r: reader.read() resolves with done
PairReadEnd(r) ==
  LET f == flights.req[r]
      slot == BufferOf(r)
  IN /\ f.pc = "loop"
     /\ ~HasFrame(flights.buffer[slot])
     /\ f.rest = <<>>
     /\ flights' = [req |-> [flights.req EXCEPT ![r] = [f EXCEPT !.pc = "done"]],
                    buffer |-> [flights.buffer EXCEPT ![slot] = <<>>]]
     /\ UNCHANGED single

NextPair ==
  \E r \in Requests :
    \/ PairReadChunk(r)
    \/ PairProcessFrame(r)
    \/ PairReadEnd(r)

SpecPair == InitPair /\ [][NextPair]_vars

(***************************************************************************)
(* One client, two requests: generate, then /is-authed with the same       *)
(* cookie, served by the same process (same secrets)                       *)
(***************************************************************************)
\* requestListener is called again: a new response object, while the
\* cookie of the client and the secrets of the process stay what they were;
\* the log of outbound requests and of comparisons is kept
NextRequest ==
  /\ pc = "done"
  /\ Len(compares) <= 1
  /\ Len(fetches) <= 1
  /\ \A i \in 1..Len(resWrites) : resWrites[i].kind # "isAuthed"
  /\ pc' = "start"
  /\ rest' = <<>>
  /\ buffer' = <<>>
  /\ readerState' = "none"
  /\ resHeaders' = Undefined
  /\ headersSent' = FALSE
  /\ resWrites' = <<>>
  /\ endCalls' = 0
  /\ error' = "none"
  /\ sawDone' = FALSE
  /\ received' = <<>>
  /\ remainder' = <<>>
  /\ returned' = <<>>
  /\ UNCHANGED << inputs, statusCode, clientGone, flights, fetches, compares >>

NextSession == Generate \/ FetchNoBody \/ PostIsAuthed \/ NextRequest

SpecSession == InitIsAuthed /\ [][NextSession]_vars

TypeOK ==
  /\ pc \in {"start", "fetch", "text", "loop", "done"}
  /\ readerState \in {"none", "open", "cancelled"}
  /\ headersSent \in BOOLEAN
  /\ endCalls \in 0..1
  /\ Len(compares) <= 1
  /\ clientGone \in BOOLEAN
  /\ statusCode = 200
  /\ Len(fetches) <= 1

(***************************************************************************)
(* Properties                                                              *)
(***************************************************************************)
IsPrefix(s, t) == Len(s) <= Len(t) /\ SubSeq(t, 1, Len(s)) = s

StartsWith(s, p) == IsPrefix(p, s)

\* the fragments written to the client, in order, without the error payload
TextsOf(writes) ==
  LET RECURSIVE Pick(_)
      Pick(i) == IF i > Len(writes) THEN <<>>
                 ELSE IF writes[i].kind = "text"
                      THEN << writes[i].content >> \o Pick(i + 1)
                      ELSE Pick(i + 1)
  IN Pick(1)

\* the request went as far as reading the upstream body through the reader
Streamed == readerState # "none"

ApiType == getModelConfig(reqBody.model).apiType

\* the frames of a text: cut after every "\n\n", scanning left to right;
\* what follows the last cut is not a frame
RECURSIVE FramesFrom(_, _, _)
FramesFrom(text, start, i) ==
  IF i >= Len(text) THEN <<>>
  ELSE IF text[i] = LF /\ text[i + 1] = LF
       THEN << SubSeq(text, start, i + 1) >> \o FramesFrom(text, i + 2, i + 2)
       ELSE FramesFrom(text, start, i + 1)

FramesOf(text) == FramesFrom(text, 1, 1)

\* what one frame makes the loop do: "skip", "emit" a content, or "throw"
FrameEffect(apiType, frame) ==
  LET line == Trim(frame)
  IN IF line = <<>> \/ line[1] # DataPrefix \/ line = << DataPrefix, DoneText >>
     THEN [what |-> "skip", content |-> <<>>]
     ELSE LET parsed == JsonParse(Tail(line))
          IN IF ~parsed.ok THEN [what |-> "throw", content |-> <<>>]
             ELSE LET c == EventContent(apiType, parsed.value)
                  IN IF ~c.ok THEN [what |-> "throw", content |-> <<>>]
                     ELSE IF c.emit THEN [what |-> "emit", content |-> c.content]
                     ELSE [what |-> "skip", content |-> <<>>]

\* the fragments of the frames of a text, in the order of the text, up to
\* the first frame that throws; threw tells whether one did
RECURSIVE FragmentsFrom(_, _, _)
FragmentsFrom(apiType, frames, i) ==
  IF i > Len(frames) THEN [out |-> <<>>, threw |-> FALSE]
  ELSE LET e == FrameEffect(apiType, frames[i])
       IN IF e.what = "throw" THEN [out |-> <<>>, threw |-> TRUE]
          ELSE LET r == FragmentsFrom(apiType, frames, i + 1)
               IN [out |-> (IF e.what = "emit" THEN << e.content >> ELSE <<>>) \o r.out,
                   threw |-> r.threw]

FragmentsOf(apiType, text) == FragmentsFrom(apiType, FramesOf(text), 1)

\* C1: for an LF-delimited upstream stream, whatever the split into read
\* chunks, the fragments written when the stream has been read to its end
\* (or to the first event that throws) are those written when the whole
\* stream arrives as one chunk
C1_ChunkSplitIndependent ==
  (/\ pc = "done"
   /\ Streamed
   /\ error # "read failed"
   /\ \A i \in 1..Len(upstream.body) : upstream.body[i] # CR)
  => LET whole == FragmentsOf(ApiType, DecodeChunk(upstream.body))
     IN /\ TextsOf(resWrites) = whole.out
        /\ (error = "none") = ~whole.threw

\* the lines of a text: cut at every "\n"
RECURSIVE LinesFrom(_, _, _)
LinesFrom(text, start, i) ==
  IF i > Len(text)
  THEN IF start > Len(text) THEN <<>> ELSE << SubSeq(text, start, Len(text)) >>
  ELSE IF text[i] = LF
       THEN << SubSeq(text, start, i - 1) >> \o LinesFrom(text, i + 1, i + 1)
       ELSE LinesFrom(text, start, i + 1)

\* the content of every chat event the upstream sent: the data lines of the
\* whole body, in order, each with the content of its last choice
RECURSIVE SentContents(_, _)
SentContents(lines, i) ==
  IF i > Len(lines) THEN <<>>
  ELSE LET line == lines[i]
           parsed == JsonParse(Tail(line))
       IN IF line # <<>> /\ line[1] = DataPrefix /\ parsed.ok
             /\ parsed.value.hasChoices /\ parsed.value.choices # <<>>
          THEN parsed.value.choices[Len(parsed.value.choices)].str \o SentContents(lines, i + 1)
          ELSE SentContents(lines, i + 1)

\* C2: a valid request for a non-privileged chat model without a cookie,
\* whose upstream stream ends normally, has written exactly the
\* concatenation of the content of every event the upstream sent
C2_ExactReconstruction ==
  (/\ pc = "done"
   /\ error = "none"
   /\ Streamed
   /\ authKey = Unset
   /\ reqBody.model \notin AUTHED_MODELS
   /\ ApiType = "chat")
  => Concat(TextsOf(resWrites))
       = SentContents(LinesFrom(ReplaceCRLF(Utf8Decode(upstream.body)), 1, 1), 1)

\* C3: every step only appends to what was written, and what has been
\* written is a prefix of the fragments of the frames received so far, in
\* the order of the upstream stream
C3_WrittenInStreamOrder ==
  [][ /\ IsPrefix(TextsOf(resWrites), TextsOf(resWrites'))
      /\ Streamed' => IsPrefix(TextsOf(resWrites'), FragmentsOf(ApiType, received').out) ]_vars

C3_Witness ==
  /\ Streamed
  /\ Len(TextsOf(resWrites)) >= 2
  /\ TextsOf(resWrites)[1] # TextsOf(resWrites)[2]

\* C4: once a [DONE] frame has been extracted the stream is over: no
\* further fragment is written to the client
C4_DoneTerminates ==
  [][ sawDone => TextsOf(resWrites') = TextsOf(resWrites) ]_vars

\* C5: when the upstream body ends while the buffer holds an unterminated
\* data event, the fragment of that event is written before the stream ends
C5_RemainderProcessed ==
  (/\ pc = "done"
   /\ error = "none"
   /\ Streamed
   /\ ApiType = "chat"
   /\ Trim(remainder) = << DataPrefix, JsonLlo >>)
  => TextsOf(resWrites) = Append(FragmentsOf(ApiType, received).out, << "llo" >>)

\* the content of the last choice of a chat event whose choices carry a delta
LastDeltaContent(value) ==
  LET last == value.choices[Len(value.choices)]
  IN IF last.kind = "delta" THEN last.str ELSE <<>>

DeltaEvents == { JsonHe, JsonLlo, JsonAB, JsonNoContent }

\* C6: for a chat-style provider, the frame of an event with one or more
\* choices writes exactly the delta.content of the last choice, the empty
\* string when that content is absent
C6_LastChoice ==
  [][ \A json \in DeltaEvents :
        (pc = "loop" /\ ApiType = "chat" /\ StartsWith(buffer, Frame(<< json >>)))
        => resWrites' = Append(resWrites, TextWrite(LastDeltaContent(AtomValue[json]))) ]_vars

C6_Witness ==
  /\ Streamed
  /\ ApiType = "chat"
  /\ StartsWith(received, Frame(<< JsonAB >>))
  /\ TextsOf(resWrites) # <<>>
  /\ TextsOf(resWrites)[1] = << "b" >>

NoChoicesNext == pc = "loop" /\ StartsWith(buffer, Frame(<< JsonNoChoices >>))

Skipped ==
  /\ resWrites' = resWrites
  /\ error' = "none"
  /\ pc' = "loop"
  /\ buffer' = SubSeq(buffer, Len(Frame(<< JsonNoChoices >>)) + 1, Len(buffer))

\* C7 as stated: an event without a choices field is skipped, for chat-style
\* and for single-prompt providers alike
C7_NoChoicesSkipped ==
  [][ NoChoicesNext => Skipped ]_vars

\* C7 amended: an event without a choices field is skipped for a chat-style
\* provider; for a single-prompt provider it throws: the reader is
\* cancelled, no fragment is written and the request ends with the error
C7_NoChoicesSkippedChat ==
  [][ NoChoicesNext =>
        IF ApiType = "chat" THEN Skipped
        ELSE /\ error' = "TypeError"
             /\ pc' = "done"
             /\ readerState' = "cancelled"
             /\ TextsOf(resWrites') = TextsOf(resWrites) ]_vars

C7_Witness ==
  /\ Streamed
  /\ ApiType = "chat"
  /\ error = "none"
  /\ StartsWith(received, Frame(<< JsonNoChoices >>) \o Frame(<< JsonHe >>))
  /\ TextsOf(resWrites) = << << "He" >> >>

FirstIsBot(messages) == messages # <<>> /\ messages[1].party = "bot"

NoHuman(messages) == \A i \in 1..Len(messages) : messages[i].party # "human"

ValidationMessages ==
  { "SyntaxError", "ZodError", "Validation error",
    "Validation error: no human message found" }

\* C8: a request whose first message is a bot message, or that has no human
\* message, never reaches the upstream and never writes completion text;
\* when it is done the client has exactly the JSON error payload
C8_BadConversationRejected ==
  (reqBody.wellFormed /\ (FirstIsBot(reqBody.messages) \/ NoHuman(reqBody.messages)))
  => /\ fetches = <<>>
     /\ TextsOf(resWrites) = <<>>
     /\ pc \in {"start", "done"}
     /\ pc = "done" => /\ error \in ValidationMessages
                       /\ resWrites = << JsonErrorWrite(error) >>

C8_Witness ==
  /\ pc = "done"
  /\ reqBody.wellFormed
  /\ reqBody.model \in MODELS
  /\ Len(reqBody.messages) = 2
  /\ reqBody.messages[1].party = "bot"
  /\ reqBody.messages[2].party = "human"
  /\ resWrites = << JsonErrorWrite("Validation error") >>

\* the request fails one of the checks on the body
InvalidRequest ==
  \/ ~reqBody.wellFormed
  \/ reqBody.model = UnknownModel
  \/ \E i \in 1..Len(reqBody.messages) : reqBody.messages[i].party = BadParty
  \/ FirstIsBot(reqBody.messages)
  \/ NoHuman(reqBody.messages)

\* C9: a request that fails validation has run no credential comparison and
\* issued no outbound request
C9_ValidationFirst ==
  InvalidRequest => compares = <<>> /\ fetches = <<>>

C9_Witness ==
  /\ pc = "done"
  /\ reqBody.wellFormed
  /\ reqBody.messages = <<>>
  /\ reqBody.model \in AUTHED_MODELS
  /\ authKey # secretAuthKey
  /\ error = "Validation error: no human message found"
  /\ compares = <<>>

\* C10: a request for a model that is not in the registry issues no
\* outbound request and ends with the error reported to the client
C10_UnknownModelRejected ==
  (reqBody.wellFormed /\ reqBody.model = UnknownModel)
  => /\ fetches = <<>>
     /\ pc \in {"start", "done"}
     /\ pc = "done" => /\ error # "none"
                       /\ resWrites = << JsonErrorWrite(error) >>

C10_Witness ==
  /\ pc = "done"
  /\ reqBody.wellFormed
  /\ reqBody.model = UnknownModel
  /\ Len(reqBody.messages) = 1
  /\ reqBody.messages[1].party = "human"
  /\ error = "ZodError"
  /\ fetches = <<>>

\* C11: every call of timeSafeCompare has returned TRUE exactly when its two
\* arguments are the same string, whichever key was drawn and whether or
\* not the two digests are equal
C11_CompareIsEquality ==
  \A i \in 1..Len(compares) :
    compares[i].result = (compares[i].a = compares[i].b)

\* a cookie that is a proper prefix of the secret and has its digest
C11_Witness ==
  /\ compares # <<>>
  /\ compares[1].a = << "k" >>
  /\ compares[1].b = TheSecret
  /\ compares[1].ah = compares[1].bh
  /\ ~compares[1].result

\* C12: a valid request for a model of AUTHED_MODELS whose cookie is not the
\* server secret (each taken as the empty string when absent) has issued
\* no outbound request and written no fragment: it ends with the JSON
\* error payload "Invalid auth key"
C12_WrongCredentialRejected ==
  (/\ pc # "start"
   /\ Validate(reqBody) = "none"
   /\ reqBody.model \in AUTHED_MODELS
   /\ OrEmpty(authKey) # OrEmpty(secretAuthKey))
  => /\ fetches = <<>>
     /\ pc = "done"
     /\ error = "Invalid auth key"
     /\ resWrites = << JsonErrorWrite("Invalid auth key") >>

C12_Witness ==
  /\ pc = "done"
  /\ reqBody.model = "gpt-5"
  /\ authKey = << "k", "2" >>
  /\ secretAuthKey = TheSecret
  /\ error = "Invalid auth key"
  /\ fetches = <<>>

\* C13: a valid request for the single-prompt model fails with "Too many
\* tokens." and issues no outbound request when the prompt has 4072 tokens
\* or more, and passes the budget test when it has fewer
C13_TokenBudget ==
  (pc # "start" /\ Validate(reqBody) = "none" /\ ApiType = "instruct")
  => IF tokenCount >= 4072
     THEN error = "Too many tokens." /\ fetches = <<>> /\ pc = "done"
     ELSE error # "Too many tokens." /\ Len(fetches) = 1

C13_Witness ==
  /\ pc = "done"
  /\ Validate(reqBody) = "none"
  /\ tokenCount = 4072
  /\ error = "Too many tokens."
  /\ fetches = <<>>

\* C14: the prompt sent for a conversation of N messages is the preamble,
\* then one line for each of the last min(N, 25) messages in conversation
\* order (the speaker's label, the text, an empty line), then the cue
\* "Bot: "; no text of an older message is in it
C14_LastWindowRendered ==
  (fetches # <<>> /\ reqBody.model = "gpt-3.5-turbo-instruct")
  => LET msgs == reqBody.messages
         n == Len(msgs)
         k == IF n < 25 THEN n ELSE 25
         prompt == fetches[1].prompt
     IN /\ Len(prompt) = 5 * k + 2
        /\ prompt[1] = Preamble
        /\ prompt[Len(prompt)] = "Bot: "
        /\ \A j \in 1..k :
             LET m == msgs[n - k + j]
                 at == 5 * (j - 1) + 1
             IN /\ prompt[at + 1] = IF m.party = "human" THEN "Human: " ELSE "Bot: "
                /\ SubSeq(prompt, at + 2, at + 3) = TextOf(n - k + j)
                /\ SubSeq(prompt, at + 4, at + 5) = << LF, LF >>
        /\ \A i \in 1..(n - k) : \A q \in 1..Len(prompt) : prompt[q] # ToString(i)

C14_Witness ==
  /\ fetches # <<>>
  /\ reqBody.model = "gpt-3.5-turbo-instruct"
  /\ Len(reqBody.messages) > 25
  /\ Len(fetches[1].prompt) = 127

\* C15: the message list sent for a chat model has one turn for every
\* message of the conversation, in the same order and however long the
\* conversation is, with role user for a human and assistant for the bot
\* and the message's text as content; one system turn is in front of them
\* exactly when the model's systemMessage setting is custom
C15_ChatTurns ==
  (fetches # <<>> /\ ApiType = "chat")
  => LET msgs == reqBody.messages
         turns == fetches[1].messages
         custom == getModelConfig(reqBody.model).systemMessage = "custom"
         off == IF custom THEN 1 ELSE 0
     IN /\ Len(turns) = Len(msgs) + off
        /\ custom => turns[1].role = "system"
        /\ \A i \in 1..Len(msgs) :
             /\ turns[i + off].role = IF msgs[i].party = "human" THEN "user" ELSE "assistant"
             /\ turns[i + off].content = msgs[i].text

C15_Witness ==
  /\ fetches # <<>>
  /\ reqBody.model = "o1-mini"
  /\ Len(reqBody.messages) > 25
  /\ Len(fetches[1].messages) = Len(reqBody.messages)
  /\ fetches[1].messages[1].role = "user"

C17_LateFailureEndsOnly ==
  [][ (error = "none" /\ error' # "none" /\ TextsOf(resWrites) # <<>>)
        => /\ resWrites' = resWrites
           /\ endCalls' = 1
           /\ pc' = "done" ]_vars

C17_Witness ==
  /\ error = "read failed"
  /\ pc = "done"
  /\ Len(resWrites) = 2
  /\ \A i \in 1..Len(resWrites) : resWrites[i].kind = "text"
  /\ endCalls = 1

\* C18: once the reader is obtained, a request that failed or finished has
\* cancelled it
C18_ReaderCancelled ==
  (Streamed /\ (error # "none" \/ pc = "done")) => readerState = "cancelled"

\* a client write that throws inside the read loop
C18_Witness ==
  /\ error = "TypeError"
  /\ Streamed
  /\ readerState = "cancelled"

\* C19: once the client's connection has closed, no further chunk is read
\* from the upstream body
C19_DisconnectStopsReading ==
  [][ (clientGone /\ pc = "loop") => rest' = rest ]_vars

\* C20: a request whose provider answered with a non-2xx status or without
\* a body has written no fragment and obtained no reader: it ends with the
\* JSON error payload, whose message for a non-2xx answer holds the
\* upstream status and body text; the status of the response stays 200
C20_UpstreamFailureReported ==
  (pc = "done" /\ fetches # <<>> /\ upstream.kind \in {"notok", "nobody"})
  => /\ error = IF upstream.kind = "notok"
                THEN ToString(<< "HTTP error! status: ", upstream.status,
                                 ". text ", upstream.text >>)
                ELSE "No response body"
     /\ resWrites = << JsonErrorWrite(error) >>
     /\ ~Streamed
     /\ statusCode = 200
     /\ endCalls = 1

C20_Witness ==
  /\ pc = "done"
  /\ upstream = NotOk(429, "rate limited")
  /\ fetches # <<>>
  /\ resWrites = << JsonErrorWrite(error) >>
  /\ statusCode = 200

\* C21: a request for o1-preview, o1-mini or gpt-5 never obtains a reader
\* and never enters the read loop; when it succeeds, the upstream body
\* parsed as one JSON document and what was written is the one fragment
\* choices[0].message.content
C21_BufferedOneFragment ==
  (reqBody.wellFormed /\ reqBody.model \in {"o1-preview", "o1-mini", "gpt-5"})
  => /\ ~Streamed
     /\ pc # "loop"
     /\ received = <<>>
     /\ (pc = "done" /\ error = "none" /\ fetches # <<>>)
        => LET parsed == JsonParse(Utf8Decode(upstream.body))
           IN /\ parsed.ok
              /\ resWrites = << TextWrite(parsed.value.choices[1].str) >>

C21_Witness ==
  /\ pc = "done"
  /\ reqBody.model = "gpt-5"
  /\ error = "none"
  /\ upstream.body = << JsonMessage >>
  /\ Len(resWrites) = 1
  /\ resWrites[1].kind = "text"

\* C22: a finished request carries Content-Type text/event-stream when it
\* succeeded through the read loop, text/plain when it succeeded for a
\* buffered model, and application/json when it failed before any fragment
\* was written
C22_ContentTypes ==
  pc = "done"
  => IF error = "none"
     THEN resHeaders = IF reqBody.model \in {"o1-preview", "o1-mini", "gpt-5"}
                       THEN "text/plain" ELSE "text/event-stream"
     ELSE TextsOf(resWrites) = <<>> => resHeaders = "application/json"

\* the endpoint of the provider a model resolves to
ProviderEndpoint(model) ==
  LET provider == MODEL_TO_PROVIDER[model]
  IN CASE provider = "deepinfra" -> "https://api.deepinfra.com/v1/openai/chat/completions"
       [] provider = "together" -> "https://api.together.xyz/v1/chat/completions"
       [] provider = "openrouter" -> "https://openrouter.ai/api/v1/chat/completions"
       [] provider = "openai" /\ model = "gpt-3.5-turbo-instruct" ->
            "https://api.openai.com/v1/completions"
       [] provider = "openai" /\ model # "gpt-3.5-turbo-instruct" ->
            "https://api.openai.com/v1/chat/completions"

\* C25: a request has issued at most one outbound request, a POST to the
\* endpoint of the provider of its model, and none when it failed
\* validation, the auth gate or the token budget
C25_OneOutboundPost ==
  /\ Len(fetches) <= 1
  /\ \A i \in 1..Len(fetches) :
       /\ fetches[i].method = "POST"
       /\ fetches[i].url = ProviderEndpoint(reqBody.model)
       /\ fetches[i].model = reqBody.model
  /\ (InvalidRequest \/ error \in {"Invalid auth key", "Too many tokens."})
     => fetches = <<>>

C25_Witness ==
  /\ pc = "done"
  /\ error = "none"
  /\ reqBody.model = "gpt-3.5-turbo-instruct"
  /\ Len(fetches) = 1
  /\ fetches[1].url = "https://api.openai.com/v1/completions"
  /\ TextsOf(resWrites) # <<>>

\* C26: every call of timeSafeCompare drew a key, hashed both arguments
\* with that key, compared the two digests, and evaluated the equality of
\* the arguments exactly when the digests were equal
C26_CompareProtocol ==
  \A i \in 1..Len(compares) :
    LET c == compares[i]
        st == c.steps
    IN /\ Len(st) \in {4, 5}
       /\ st[1].op = "randomBytes"
       /\ st[1].key \in RandomKeys
       /\ st[2] = [op |-> "createHmac", key |-> st[1].key, arg |-> c.a]
       /\ st[3] = [op |-> "createHmac", key |-> st[1].key, arg |-> c.b]
       /\ c.ah = Hmac(st[1].key, c.a)
       /\ c.bh = Hmac(st[1].key, c.b)
       /\ st[4].op = "timingSafeEqual"
       /\ (Len(st) = 5) = (c.ah = c.bh)
       /\ Len(st) = 5 => st[5].op = "==="

\* unequal digests: the arguments themselves were not compared
C26_Witness ==
  /\ compares # <<>>
  /\ compares[1].ah # compares[1].bh
  /\ Len(compares[1].steps) = 4
  /\ compares[1].key = "r2"

\* C30: the request sent for the single-prompt model has max_tokens equal
\* to 4097 - promptTokens - 25, a number from 1 to 4071
C30_TokenBudgetSent ==
  (fetches # <<>> /\ reqBody.model = "gpt-3.5-turbo-instruct")
  => /\ fetches[1].max_tokens = 4097 - tokenCount - 25
     /\ fetches[1].max_tokens \in 1..4071

C30_Witness ==
  /\ fetches # <<>>
  /\ reqBody.model = "gpt-3.5-turbo-instruct"
  /\ tokenCount = 4071
  /\ fetches[1].max_tokens = 1

C24_RequestsIsolated ==
  \A r \in Requests :
    LET f == flights.req[r]
        own == FragmentsOf("chat", DecodeChunk(f.body)).out
    IN /\ f.pc # "failed"
       /\ IsPrefix(f.received, DecodeChunk(f.body))
       /\ IsPrefix(TextsOf(f.resWrites), own)
       /\ f.pc = "done" => TextsOf(f.resWrites) = own

\* request 2 is done while request 1 is between its two fragments
C24_Witness ==
  /\ flights.req[1].body = HelloStream
  /\ flights.req[2].body = ABStream
  /\ flights.req[2].pc = "done"
  /\ flights.req[1].pc = "loop"
  /\ TextsOf(flights.req[1].resWrites) = << << "He" >> >>
  /\ TextsOf(flights.req[2].resWrites) = << << "b" >> >>

\* C27: a chunk is read from the upstream body only when the buffer holds
\* no complete frame and the fragments of all the frames received so far
\* have been written
C27_Unbatched ==
  [][ (pc = "loop" /\ rest' # rest)
        => /\ IndexOfDoubleNewline(buffer) = 0
           /\ TextsOf(resWrites) = FragmentsOf(ApiType, received).out ]_vars

\* one chunk brought two frames: the fragment of the first is written
\* while the second is in the buffer and the body is not read to its end
C27_Witness ==
  /\ pc = "loop"
  /\ rest # <<>>
  /\ IndexOfDoubleNewline(buffer) # 0
  /\ TextsOf(resWrites) = << << "He" >> >>

C29_DataLineAfterOtherLine ==
  (/\ pc = "done"
   /\ error = "none"
   /\ Streamed
   /\ ApiType = "chat"
   /\ upstream.body = << Comment, LF, DataPrefix, JsonHe, LF, LF >>)
  => TextsOf(resWrites) = << << "He" >> >>

\* C31: the values readUntilDoubleNewline has returned so far (the frames,
\* then the value returned with done = true), followed by the buffer, are
\* the decoded and normalised chunks read so far, in order
C31_TextConserved ==
  Streamed => Concat(returned) \o remainder \o buffer = received

\* C31 witness: a frame was returned, then the stream ended with a remainder
C31_Witness ==
  /\ pc = "done"
  /\ Len(returned) = 1
  /\ remainder # <<>>
  /\ Concat(returned) \o remainder = received

\* C32: a value returned with done = false ends with "\n\n", holds no
\* other "\n\n" and gives chunkToDataArray at most one event; the value
\* returned with done = true and the buffer left behind hold no "\n\n"
C32_OneFramePerValue ==
  /\ \A i \in 1..Len(returned) :
        LET value == returned[i]
        IN /\ Len(value) >= 2
           /\ IndexOfDoubleNewline(value) = Len(value) - 1
           /\ Len(chunkToDataArray(value).data) <= 1
  /\ IndexOfDoubleNewline(remainder) = 0
  /\ (readerState = "cancelled" /\ error = "none") => buffer = <<>>

\* C32 witness: one chunk carried two frames and each was returned on its own
C32_Witness ==
  /\ pc = "done"
  /\ error = "none"
  /\ Len(returned) = 2
  /\ received = Concat(returned)
  /\ \E n \in 1..Len(upstream.body) :
        IndexOfDoubleNewline(DecodeChunk(SubSeq(upstream.body, 1, n)))
          \notin {0, n - 1}

\* the frames without the white space around them
Trimmed(frames) == [i \in 1..Len(frames) |-> Trim(frames[i])]

\* C33: an upstream stream of single-byte characters that frames events
\* with CRLF CRLF yields, for every split into read chunks, the frames
\* (up to the white space around them) and the fragments of the same
\* stream with every CRLF replaced by LF
C33_CrlfSplitIndependent ==
  (/\ pc = "done"
   /\ Streamed
   /\ error # "read failed"
   /\ \E i \in 1..Len(upstream.body) : upstream.body[i] = CR
   /\ \A i \in 1..Len(upstream.body) : upstream.body[i] \notin {"C3", "A9"})
  => LET lf == ReplaceCRLF(Utf8Decode(upstream.body))
         whole == FragmentsOf(ApiType, lf)
     IN /\ IsPrefix(Trimmed(returned), Trimmed(FramesOf(lf)))
        /\ error = "none" => Trimmed(returned) = Trimmed(FramesOf(lf))
        /\ TextsOf(resWrites) = whole.out
        /\ (error = "none") = ~whole.threw

\* C34: when the value just returned to the loop of a chat model is an
\* event whose choices is an empty array, or whose last choice has no
\* delta, the loop raises no error and the stream goes on
C34_EmptyChoicesTolerated ==
  (/\ Streamed
   /\ ApiType = "chat"
   /\ returned # <<>>
   /\ Trim(returned[Len(returned)]) \in { << DataPrefix, JsonEmptyChoices >>,
                                          << DataPrefix, JsonNoDelta >> })
  => error # "TypeError"

\* the response at hand is the answer of /is-authed
IsAuthedAnswered ==
  pc = "done" /\ resWrites # <<>> /\ resWrites[1].kind = "isAuthed"

\* the request body is a valid request for a model of AUTHED_MODELS
PrivilegedRequest ==
  Validate(reqBody) = "none" /\ reqBody.model \in AUTHED_MODELS

\* C35: without a __Secure-authKey cookie, whatever the server secret is,
\* /is-authed answers isAuthed: false and a generate request for a
\* privileged model issues no outbound request
C35_NoCookieNeverAuthorized ==
  authKey = Unset
  => /\ IsAuthedAnswered => resWrites = << IsAuthedWrite(FALSE) >>
     /\ PrivilegedRequest => fetches = <<>>

\* C36: when a client has sent a generate request for a privileged model
\* and then /is-authed with the same cookie, the answer is isAuthed: true
\* exactly when the generate request passed the gate and went upstream
C36_SameDecision ==
  (IsAuthedAnswered /\ PrivilegedRequest /\ Len(compares) = 2)
  => resWrites = << IsAuthedWrite(fetches # <<>>) >>

\* C36 witness: no cookie and an empty secret, both endpoints say yes
C36_Witness ==
  /\ IsAuthedAnswered
  /\ PrivilegedRequest
  /\ Len(compares) = 2
  /\ authKey = Unset
  /\ secretAuthKey = <<>>
  /\ fetches # <<>>
  /\ resWrites = << IsAuthedWrite(TRUE) >>

\* C37: when the provider's answer of a model is taken up, it goes to the
\* buffered path exactly when the outbound request asked for stream: false
\* and to the reader's loop exactly when it asked for a stream
C37_StreamFlagMatchesPath ==
  [][(pc = "fetch" /\ pc' \in {"text", "loop"})
       => /\ Len(fetches) = 1
          /\ fetches[1].stream = (pc' = "loop")]_vars

\* C37 witness: gpt-5 was asked without a stream and its body is awaited
C37_Witness ==
  /\ pc = "text"
  /\ reqBody.model = "gpt-5"
  /\ Len(fetches) = 1
  /\ ~fetches[1].stream

\* C38: res.end() is called at most once, it has been called once when
\* the handler is done, on the normal path and on every path through the
\* catch block, and no step writes to a response that has been ended
C38_EndedOnce ==
  [][/\ endCalls' <= 1
     /\ endCalls' >= endCalls
     /\ endCalls = 1 => resWrites' = resWrites
     /\ (pc' = "done") = (endCalls' = 1)]_vars

\* C38 witness: a fragment was written, the next event made the loop
\* throw, and the catch block ended the response once
C38_Witness ==
  /\ pc = "done"
  /\ error = "TypeError"
  /\ Len(TextsOf(resWrites)) = 1
  /\ Len(resWrites) = 1
  /\ headersSent
  /\ endCalls = 1

====
